---- MODULE Spec2Model ----
(***************************************************************************)
(* Quorum check for replica set configuration changes                      *)
(* (src/mongo/db/repl/check_quorum_for_config_change.cpp).                 *)
(*                                                                         *)
(* The QuorumChecker is a ScatterGatherAlgorithm: a ScatterGatherRunner    *)
(* asks it for its requests, schedules them on the ReplicationExecutor,    *)
(* routes every completion into processResponse and fires a terminal       *)
(* event once hasReceivedSufficientResponses() is true.  The checker's     *)
(* methods are the operators below, written over a record of its fields;   *)
(* the actions are the steps of the runner and of the executor.            *)
(***************************************************************************)
EXTENDS Integers, Sequences, FiniteSets, TLC

\* Largest number of members of a candidate configuration.
MaxMembers == 3
\* Candidate configuration versions: 1 is checkQuorumForInitiate's, and 2
\* stands for the versions above 1 of checkQuorumForReconfig (the code tests
\* the version against 1 and against the remote's version only).
Versions == {1, 2}

VARIABLES
    rsConfig,        \* _rsConfig: the candidate configuration (immutable)
    myIndex,         \* _myIndex: index of the local member in rsConfig
    down,            \* _down: endpoints believed to be down, in recorded order
    voters,          \* _voters: voting endpoints that answered affirmatively
    numResponses,    \* _numResponses
    numElectable,    \* _numElectable
    vetoStatus,      \* _vetoStatus
    finalStatus,     \* _finalStatus
    numFinalWrites,  \* history: number of verdicts stored into _finalStatus
    runnerState,     \* "created", "running" or "done" (terminal event fired)
    runStatus,       \* the status ScatterGatherRunner::run returns
    requests,        \* the list getRequests() returned to the runner
    outstanding,     \* targets whose request is scheduled and not completed
    shutdown,        \* the executor has been shut down
    numAccepted,     \* history: processed responses that were ok and no veto
    anyFailing,      \* history: a processed response was a failure or ok=false
    anyVeto,         \* history: a processed response carried a veto condition
    suffReturned,    \* history: hasReceivedSufficientResponses returned true
    lateVeto,        \* history: a vetoing response arrived and was discarded
    numLate          \* history: processResponse calls made after sufficiency

checkerVars == <<down, voters, numResponses, numElectable, vetoStatus,
                 finalStatus, numFinalWrites>>
runnerVars == <<runnerState, runStatus, requests, outstanding, shutdown>>
historyVars == <<numAccepted, anyFailing, anyVeto, suffReturned, lateVeto, numLate>>
vars == <<rsConfig, myIndex, checkerVars, runnerVars, historyVars>>

----------------------------------------------------------------------------
(* Status values.  A Status is a code and a message; the message is kept   *)
(* as its parts: the text, the endpoints it lists and the number it names. *)

Status(code, reason, hosts, num) ==
    [code |-> code, reason |-> reason, hosts |-> hosts, num |-> num]

StatusOK == Status("OK", "", <<>>, 0)

isOK(status) == status.code = "OK"

\* _finalStatus as the constructor's initializer list leaves it.
QuorumCheckCanceled ==
    Status("CallbackCanceled", "Quorum check canceled", <<>>, 0)

\* The statuses of the runner when the executor is shut down.
ShutdownInProgress == Status("ShutdownInProgress", "Shutdown in progress", <<>>, 0)
RunCanceled == Status("CallbackCanceled", "Callback canceled", <<>>, 0)

NoStatus == Status("none", "", <<>>, 0)

----------------------------------------------------------------------------
(* ReplicaSetConfig and MemberConfig.                                      *)

\* The endpoint of the member at index i: "h0", "h1", ... written as i.
HostAndPort(i) == i

MemberConfig(i, voter, electable) ==
    [id |-> i + 1, host |-> HostAndPort(i), isVoter |-> voter, isElectable |-> electable]

getNumMembers(cfg) == Cardinality(DOMAIN cfg.members)

getMemberAt(cfg, i) == cfg.members[i]

getConfigVersion(cfg) == cfg.version

\* majorityVoteCount = floor(number of voters / 2) + 1.
getMajorityVoteCount(cfg) ==
    (Cardinality({i \in DOMAIN cfg.members : cfg.members[i].isVoter}) \div 2) + 1

\* A configuration that passed ReplicaSetConfig::validate(): it has at least
\* one voting member and at least one electable member.
ValidConfig(cfg) ==
    /\ \E i \in DOMAIN cfg.members : cfg.members[i].isVoter
    /\ \E i \in DOMAIN cfg.members : cfg.members[i].isElectable

Configs ==
    { cfg \in UNION { [version : Versions,
                       members : { [i \in 0..(n - 1) |-> MemberConfig(i, f[i][1], f[i][2])] :
                                   f \in [0..(n - 1) -> BOOLEAN \X BOOLEAN] }]
                      : n \in 1..MaxMembers } :
      ValidConfig(cfg) }

\* The members other than self are interchangeable (each gets one request
\* and the responses arrive in any order), so of the configurations that
\* differ only by a permutation of them, the one listing them by role
\* (voters before non-voters, electable before non-electable) is enumerated.
Role(m) == (IF m.isVoter THEN 0 ELSE 2) + (IF m.isElectable THEN 0 ELSE 1)

Canonical(cfg, self) ==
    \A i, j \in DOMAIN cfg.members \ {self} :
        i < j => Role(cfg.members[i]) <= Role(cfg.members[j])

----------------------------------------------------------------------------
(* Heartbeat responses: a transport failure (timeout, connection error),   *)
(* or a payload with the fields the checker reads.                         *)

TransportFailure ==
    [isOK |-> FALSE, mismatch |-> FALSE, set |-> "", v |-> 0, ok |-> FALSE]

Payload(mismatch, set, v, ok) ==
    [isOK |-> TRUE, mismatch |-> mismatch, set |-> set, v |-> v, ok |-> ok]

\* The responses a member can give to a heartbeat for cfg: its installed
\* version, when it has a configuration, is behind, at or ahead of the
\* candidate's.  res["v"].numberInt() is 0 when the field is absent.
Responses(cfg) ==
    {TransportFailure}
    \cup { Payload(m, "", 0, k) : m \in BOOLEAN, k \in BOOLEAN }
    \cup { Payload(m, "rs0", v, k) :
             m \in BOOLEAN, v \in (cfg.version - 1)..(cfg.version + 1), k \in BOOLEAN }

----------------------------------------------------------------------------
(* QuorumChecker.  c is the record of the checker's fields.                *)

Checker ==
    [down |-> down, voters |-> voters, numResponses |-> numResponses,
     numElectable |-> numElectable, vetoStatus |-> vetoStatus,
     finalStatus |-> finalStatus, numFinalWrites |-> numFinalWrites]

\* Variant: a majority of voters is enough without an electable node.
hasReceivedSufficientResponses_noElectableCheck(c, cfg) ==
    IF ~isOK(c.vetoStatus) \/ c.numResponses = getNumMembers(cfg)
    THEN TRUE
    ELSE IF getConfigVersion(cfg) = 1
    THEN FALSE
    ELSE IF Len(c.voters) < getMajorityVoteCount(cfg)
    THEN FALSE
    ELSE TRUE

\* Variant: having heard from every member is not recognised as the end.
hasReceivedSufficientResponses_ignoresAllResponded(c, cfg) ==
    IF ~isOK(c.vetoStatus)
    THEN TRUE
    ELSE IF getConfigVersion(cfg) = 1
    THEN FALSE
    ELSE IF c.numElectable = 0
    THEN FALSE
    ELSE IF Len(c.voters) < getMajorityVoteCount(cfg)
    THEN FALSE
    ELSE TRUE

\* Variant: the early exit is taken at version 1 as well.
hasReceivedSufficientResponses_earlyExitAtInitiate(c, cfg) ==
    IF ~isOK(c.vetoStatus) \/ c.numResponses = getNumMembers(cfg)
    THEN TRUE
    ELSE IF c.numElectable = 0
    THEN FALSE
    ELSE IF Len(c.voters) < getMajorityVoteCount(cfg)
    THEN FALSE
    ELSE TRUE

\* Variant: no early exit for a reconfig; waits for a veto or for everybody.
hasReceivedSufficientResponses_noEarlyExit(c, cfg) ==
    ~isOK(c.vetoStatus) \/ c.numResponses = getNumMembers(cfg)

hasReceivedSufficientResponses(c, cfg) ==
    IF ~isOK(c.vetoStatus) \/ c.numResponses = getNumMembers(cfg)
    THEN TRUE    \* Vetoed or everybody has responded.  All done.
    ELSE IF getConfigVersion(cfg) = 1
    THEN FALSE   \* initial configuration: keep waiting
    ELSE IF c.numElectable = 0
    THEN FALSE   \* no electable node heard yet
    ELSE IF Len(c.voters) < getMajorityVoteCount(cfg)
    THEN FALSE   \* no majority of voters heard yet
    ELSE TRUE

\* Variant: exactly a majority of voters is reported as not enough.
quorumCheckResult_majorityOffByOne(c, cfg) ==
    IF ~isOK(c.vetoStatus)
    THEN c.vetoStatus
    ELSE IF getConfigVersion(cfg) = 1 /\ c.down # <<>>
    THEN Status("NodeNotFound",
                "Could not contact the following nodes during replica set initiation",
                c.down, 0)
    ELSE IF c.numElectable = 0
    THEN Status("NodeNotFound",
                "Quorum check failed because no electable nodes responded",
                <<>>, 0)
    ELSE IF Len(c.voters) <= getMajorityVoteCount(cfg)
    THEN Status("NodeNotFound",
                IF Len(c.voters) = 0
                THEN "Quorum check failed because not enough voting nodes responded; none responded"
                ELSE "Quorum check failed because not enough voting nodes responded; only the following",
                c.voters, getMajorityVoteCount(cfg))
    ELSE StatusOK

\* Variant: the electability rule is tried before the unreachable-node rule.
quorumCheckResult_electableFirst(c, cfg) ==
    IF ~isOK(c.vetoStatus)
    THEN c.vetoStatus
    ELSE IF c.numElectable = 0
    THEN Status("NodeNotFound",
                "Quorum check failed because no electable nodes responded",
                <<>>, 0)
    ELSE IF getConfigVersion(cfg) = 1 /\ c.down # <<>>
    THEN Status("NodeNotFound",
                "Could not contact the following nodes during replica set initiation",
                c.down, 0)
    ELSE IF Len(c.voters) < getMajorityVoteCount(cfg)
    THEN Status("NodeNotFound",
                IF Len(c.voters) = 0
                THEN "Quorum check failed because not enough voting nodes responded; none responded"
                ELSE "Quorum check failed because not enough voting nodes responded; only the following",
                c.voters, getMajorityVoteCount(cfg))
    ELSE StatusOK

\* Variant: the unreachable-nodes rule of initiate is missing.
quorumCheckResult_noDownRule(c, cfg) ==
    IF ~isOK(c.vetoStatus)
    THEN c.vetoStatus
    ELSE IF c.numElectable = 0
    THEN Status("NodeNotFound",
                "Quorum check failed because no electable nodes responded",
                <<>>, 0)
    ELSE IF Len(c.voters) < getMajorityVoteCount(cfg)
    THEN Status("NodeNotFound",
                "Quorum check failed because not enough voting nodes responded",
                c.voters, getMajorityVoteCount(cfg))
    ELSE StatusOK

\* Variant: the unreachable-nodes rule tests the version with != instead of ==.
quorumCheckResult_downRuleInverted(c, cfg) ==
    IF ~isOK(c.vetoStatus)
    THEN c.vetoStatus
    ELSE IF getConfigVersion(cfg) # 1 /\ c.down # <<>>
    THEN Status("NodeNotFound",
                "Could not contact the following nodes during replica set initiation",
                c.down, 0)
    ELSE IF c.numElectable = 0
    THEN Status("NodeNotFound",
                "Quorum check failed because no electable nodes responded",
                <<>>, 0)
    ELSE IF Len(c.voters) < getMajorityVoteCount(cfg)
    THEN Status("NodeNotFound",
                "Quorum check failed because not enough voting nodes responded",
                c.voters, getMajorityVoteCount(cfg))
    ELSE StatusOK

\* The status _onQuorumCheckComplete computes, first matching rule first.
quorumCheckResult(c, cfg) ==
    IF ~isOK(c.vetoStatus)
    THEN c.vetoStatus
    ELSE IF getConfigVersion(cfg) = 1 /\ c.down # <<>>
    THEN Status("NodeNotFound",
                "Could not contact the following nodes during replica set initiation",
                c.down, 0)
    ELSE IF c.numElectable = 0
    THEN Status("NodeNotFound",
                "Quorum check failed because no electable nodes responded",
                <<>>, 0)
    ELSE IF Len(c.voters) < getMajorityVoteCount(cfg)
    THEN Status("NodeNotFound",
                IF Len(c.voters) = 0
                THEN "Quorum check failed because not enough voting nodes responded; none responded"
                ELSE "Quorum check failed because not enough voting nodes responded; only the following",
                c.voters, getMajorityVoteCount(cfg))
    ELSE StatusOK

onQuorumCheckComplete(c, cfg) ==
    [c EXCEPT !.finalStatus = quorumCheckResult(c, cfg),
              !.numFinalWrites = @ + 1]

\* The index of the first member whose endpoint is target (the loop of
\* _tabulateHeartbeatResponse), or -1 when there is none (invariant(false)).
findMember(cfg, target) ==
    LET hits == {i \in DOMAIN cfg.members : getMemberAt(cfg, i).host = target}
    IN  IF hits = {} THEN -1
        ELSE CHOOSE i \in hits : \A j \in hits : i <= j

\* Variant: hosts are put at the front of the down and voters lists.
tabulateHeartbeatResponse_prepends(c, cfg, target, response) ==
    LET c1 == [c EXCEPT !.numResponses = @ + 1] IN
    IF ~response.isOK
    THEN [c1 EXCEPT !.down = <<target>> \o @]
    ELSE IF response.mismatch
    THEN [c1 EXCEPT !.vetoStatus =
              Status("NewReplicaSetConfigurationIncompatible",
                     "Our set name did not match that of", <<target>>, 0)]
    ELSE IF response.set # "" /\ response.v >= getConfigVersion(cfg)
    THEN [c1 EXCEPT !.vetoStatus =
              Status("NewReplicaSetConfigurationIncompatible",
                     "Our config version is no larger than the version on",
                     <<target>>, response.v)]
    ELSE IF ~response.ok
    THEN [c1 EXCEPT !.down = <<target>> \o @]
    ELSE LET i == findMember(cfg, target) IN
         IF i = -1
         THEN c1
         ELSE [c1 EXCEPT
                 !.numElectable = IF getMemberAt(cfg, i).isElectable THEN @ + 1 ELSE @,
                 !.voters = IF getMemberAt(cfg, i).isVoter THEN <<target>> \o @ ELSE @]

\* Variant: the ok field is examined before the two veto conditions.
tabulateHeartbeatResponse_okFirst(c, cfg, target, response) ==
    LET c1 == [c EXCEPT !.numResponses = @ + 1] IN
    IF ~response.isOK
    THEN [c1 EXCEPT !.down = Append(@, target)]
    ELSE IF ~response.ok
    THEN [c1 EXCEPT !.down = Append(@, target)]
    ELSE IF response.mismatch
    THEN [c1 EXCEPT !.vetoStatus =
              Status("NewReplicaSetConfigurationIncompatible",
                     "Our set name did not match that of", <<target>>, 0)]
    ELSE IF response.set # "" /\ response.v >= getConfigVersion(cfg)
    THEN [c1 EXCEPT !.vetoStatus =
              Status("NewReplicaSetConfigurationIncompatible",
                     "Our config version is no larger than the version on",
                     <<target>>, response.v)]
    ELSE LET i == findMember(cfg, target) IN
         IF i = -1
         THEN c1
         ELSE [c1 EXCEPT
                 !.numElectable = IF getMemberAt(cfg, i).isElectable THEN @ + 1 ELSE @,
                 !.voters = IF getMemberAt(cfg, i).isVoter THEN Append(@, target) ELSE @]

\* Variant: the installed version is compared with > instead of >=.
tabulateHeartbeatResponse_strictVersion(c, cfg, target, response) ==
    LET c1 == [c EXCEPT !.numResponses = @ + 1] IN
    IF ~response.isOK
    THEN [c1 EXCEPT !.down = Append(@, target)]
    ELSE IF response.mismatch
    THEN [c1 EXCEPT !.vetoStatus =
              Status("NewReplicaSetConfigurationIncompatible",
                     "Our set name did not match that of", <<target>>, 0)]
    ELSE IF response.set # "" /\ response.v > getConfigVersion(cfg)
    THEN [c1 EXCEPT !.vetoStatus =
              Status("NewReplicaSetConfigurationIncompatible",
                     "Our config version is no larger than the version on",
                     <<target>>, response.v)]
    ELSE IF ~response.ok 
    THEN [c1 EXCEPT !.down = Append(@, target)]
    ELSE LET i == findMember(cfg, target)
             c2 == c1
         IN
         IF i = -1
         THEN c1
         ELSE [c2 EXCEPT
                 !.numElectable = IF getMemberAt(cfg, i).isElectable THEN @ + 1 ELSE @,
                 !.voters = IF getMemberAt(cfg, i).isVoter THEN Append(@, target) ELSE @]

\* Variant: a transport failure is counted twice.
tabulateHeartbeatResponse_doubleCount(c, cfg, target, response) ==
    LET c1 == [c EXCEPT !.numResponses = @ + 1] IN
    IF ~response.isOK
    THEN [[c1 EXCEPT !.numResponses = @ + 1] EXCEPT !.down = Append(@, target)]
    ELSE IF response.mismatch
    THEN [c1 EXCEPT !.vetoStatus =
              Status("NewReplicaSetConfigurationIncompatible",
                     "Our set name did not match that of", <<target>>, 0)]
    ELSE IF response.set # "" /\ response.v >= getConfigVersion(cfg)
    THEN [c1 EXCEPT !.vetoStatus =
              Status("NewReplicaSetConfigurationIncompatible",
                     "Our config version is no larger than the version on",
                     <<target>>, response.v)]
    ELSE IF ~response.ok 
    THEN [c1 EXCEPT !.down = Append(@, target)]
    ELSE LET i == findMember(cfg, target)
             c2 == c1
         IN
         IF i = -1
         THEN c1
         ELSE [c2 EXCEPT
                 !.numElectable = IF getMemberAt(cfg, i).isElectable THEN @ + 1 ELSE @,
                 !.voters = IF getMemberAt(cfg, i).isVoter THEN Append(@, target) ELSE @]

\* Variant: the ok=false branch does not return and the target is credited too.
tabulateHeartbeatResponse_fallThrough(c, cfg, target, response) ==
    LET c1 == [c EXCEPT !.numResponses = @ + 1] IN
    IF ~response.isOK
    THEN [c1 EXCEPT !.down = Append(@, target)]
    ELSE IF response.mismatch
    THEN [c1 EXCEPT !.vetoStatus =
              Status("NewReplicaSetConfigurationIncompatible",
                     "Our set name did not match that of", <<target>>, 0)]
    ELSE IF response.set # "" /\ response.v >= getConfigVersion(cfg)
    THEN [c1 EXCEPT !.vetoStatus =
              Status("NewReplicaSetConfigurationIncompatible",
                     "Our config version is no larger than the version on",
                     <<target>>, response.v)]
    ELSE IF ~response.ok /\ FALSE
    THEN [c1 EXCEPT !.down = Append(@, target)]
    ELSE LET i == findMember(cfg, target)
             c2 == IF ~response.ok THEN [c1 EXCEPT !.down = Append(@, target)] ELSE c1
         IN
         IF i = -1
         THEN c1
         ELSE [c2 EXCEPT
                 !.numElectable = IF getMemberAt(cfg, i).isElectable THEN @ + 1 ELSE @,
                 !.voters = IF getMemberAt(cfg, i).isVoter THEN Append(@, target) ELSE @]

tabulateHeartbeatResponse(c, cfg, target, response) ==
    LET c1 == [c EXCEPT !.numResponses = @ + 1] IN
    IF ~response.isOK
    THEN [c1 EXCEPT !.down = Append(@, target)]
    ELSE IF response.mismatch
    THEN [c1 EXCEPT !.vetoStatus =
              Status("NewReplicaSetConfigurationIncompatible",
                     "Our set name did not match that of", <<target>>, 0)]
    ELSE IF response.set # "" /\ response.v >= getConfigVersion(cfg)
    THEN [c1 EXCEPT !.vetoStatus =
              Status("NewReplicaSetConfigurationIncompatible",
                     "Our config version is no larger than the version on",
                     <<target>>, response.v)]
    ELSE IF ~response.ok
    THEN [c1 EXCEPT !.down = Append(@, target)]
    ELSE LET i == findMember(cfg, target) IN
         IF i = -1
         THEN c1   \* invariant(false): not reachable, targets are members
         ELSE [c1 EXCEPT
                 !.numElectable = IF getMemberAt(cfg, i).isElectable THEN @ + 1 ELSE @,
                 !.voters = IF getMemberAt(cfg, i).isVoter THEN Append(@, target) ELSE @]

\* Variant: a response that completes the check does not compute the result.
processResponse_neverFinalizes(c, cfg, target, response) ==
    tabulateHeartbeatResponse(c, cfg, target, response)

\* Variant: the result is computed after every response.
processResponse_alwaysFinalize(c, cfg, target, response) ==
    onQuorumCheckComplete(tabulateHeartbeatResponse(c, cfg, target, response), cfg)

processResponse(c, cfg, target, response) ==
    LET t == tabulateHeartbeatResponse(c, cfg, target, response) IN
    IF hasReceivedSufficientResponses(t, cfg)
    THEN onQuorumCheckComplete(t, cfg)
    ELSE t

\* Variant: the constructor does not finalize a check that is complete at once.
QuorumChecker_noImmediateFinalize(cfg, i) ==
    LET myConfig == getMemberAt(cfg, i) IN
    [down |-> <<>>,
     voters |-> IF myConfig.isVoter THEN <<myConfig.host>> ELSE <<>>,
     numResponses |-> 1,
     numElectable |-> IF myConfig.isElectable THEN 1 ELSE 0,
     vetoStatus |-> StatusOK,
     finalStatus |-> QuorumCheckCanceled,
     numFinalWrites |-> 0]

\* Variant: self is not counted as having responded.
QuorumChecker_noSelfCredit(cfg, i) ==
    LET myConfig == getMemberAt(cfg, i)
        c0 == [down |-> <<>>,
               voters |-> IF myConfig.isVoter THEN <<myConfig.host>> ELSE <<>>,
               numResponses |-> 0,
               numElectable |-> IF myConfig.isElectable THEN 1 ELSE 0,
               vetoStatus |-> StatusOK,
               finalStatus |-> QuorumCheckCanceled,
               numFinalWrites |-> 0]
    IN  IF hasReceivedSufficientResponses(c0, cfg)
        THEN onQuorumCheckComplete(c0, cfg)
        ELSE c0

\* The constructor: the initializer list, the self pre-credit and the
\* immediate finalization when the predicate already holds.
QuorumChecker(cfg, i) ==
    LET myConfig == getMemberAt(cfg, i)
        c0 == [down |-> <<>>,
               voters |-> IF myConfig.isVoter THEN <<myConfig.host>> ELSE <<>>,
               numResponses |-> 1,
               numElectable |-> IF myConfig.isElectable THEN 1 ELSE 0,
               vetoStatus |-> StatusOK,
               finalStatus |-> QuorumCheckCanceled,
               numFinalWrites |-> 0]
    IN  IF hasReceivedSufficientResponses(c0, cfg)
        THEN onQuorumCheckComplete(c0, cfg)
        ELSE c0

Request(target, cfg) ==
    [target |-> target,
     configVersion |-> getConfigVersion(cfg),
     checkEmpty |-> (getConfigVersion(cfg) = 1)]

\* Variant: a request is built for self as well.
RECURSIVE requestsFrom_includesSelf(_, _, _)
requestsFrom_includesSelf(cfg, self, i) ==
    IF i >= getNumMembers(cfg) THEN <<>>
    ELSE <<Request(getMemberAt(cfg, i).host, cfg)>>
             \o requestsFrom_includesSelf(cfg, self, i + 1)

\* The requests for the members i .. n-1 other than self, in index order.
RECURSIVE requestsFrom(_, _, _)
requestsFrom(cfg, self, i) ==
    IF i >= getNumMembers(cfg) THEN <<>>
    ELSE IF self = i THEN requestsFrom(cfg, self, i + 1)
    ELSE <<Request(getMemberAt(cfg, i).host, cfg)>> \o requestsFrom(cfg, self, i + 1)

getRequests(c, cfg, self) ==
    IF hasReceivedSufficientResponses(c, cfg)
    THEN <<>>
    ELSE requestsFrom(cfg, self, 0)

getFinalStatus(c) == c.finalStatus

\* Variant: the runner's status is ignored and the checker's is returned.
checkQuorumGeneral_ignoresRunner(status, c) ==
    getFinalStatus(c)

\* checkQuorumGeneral's return value once runner.run() returned status.
checkQuorumGeneral(status, c) ==
    IF ~isOK(status) THEN status ELSE getFinalStatus(c)

----------------------------------------------------------------------------
(* What a response carries, read off the response itself.                  *)

\* A payload with mismatch=true, or with a non-empty set and v at or ahead
\* of the candidate version.
Vetoing(response, cfg) ==
    /\ response.isOK
    /\ \/ response.mismatch
       \/ response.set # "" /\ response.v >= getConfigVersion(cfg)

\* A transport failure or timeout, or a payload with ok=false.
Failing(response) == ~response.isOK \/ ~response.ok

\* A payload that is neither failing nor vetoing.
Accepting(response, cfg) ==
    response.isOK /\ response.ok /\ ~Vetoing(response, cfg)

\* The history of the responses routed into processResponse.
Observe(response) ==
    /\ numAccepted' = numAccepted + (IF Accepting(response, rsConfig) THEN 1 ELSE 0)
    /\ anyFailing' = (anyFailing \/ Failing(response))
    /\ anyVeto' = (anyVeto \/ Vetoing(response, rsConfig))

----------------------------------------------------------------------------
(* The check: checkQuorumGeneral constructs the checker and runs it.       *)

SetChecker(c) ==
    /\ down' = c.down
    /\ voters' = c.voters
    /\ numResponses' = c.numResponses
    /\ numElectable' = c.numElectable
    /\ vetoStatus' = c.vetoStatus
    /\ finalStatus' = c.finalStatus
    /\ numFinalWrites' = c.numFinalWrites

Targets(reqs) == { reqs[k].target : k \in DOMAIN reqs }

Init ==
    \E cfg \in Configs : \E i \in DOMAIN cfg.members :
        LET c == QuorumChecker(cfg, i) IN
        /\ Canonical(cfg, i)
        /\ rsConfig = cfg
        /\ myIndex = i
        /\ down = c.down
        /\ voters = c.voters
        /\ numResponses = c.numResponses
        /\ numElectable = c.numElectable
        /\ vetoStatus = c.vetoStatus
        /\ finalStatus = c.finalStatus
        /\ numFinalWrites = c.numFinalWrites
        /\ runnerState = "created"
        /\ runStatus = NoStatus
        /\ requests = <<>>
        /\ outstanding = {}
        /\ shutdown = FALSE
        /\ numAccepted = 0
        /\ anyFailing = FALSE
        /\ anyVeto = FALSE
        /\ suffReturned = hasReceivedSufficientResponses(c, cfg)
        /\ lateVeto = FALSE
        /\ numLate = 0

\* ScatterGatherRunner::start: a scheduling failure when the executor is
\* already shut down; the terminal event at once when the algorithm is
\* already complete; otherwise every request is scheduled.
Start ==
    /\ runnerState = "created"
    /\ IF shutdown
       THEN /\ runnerState' = "done"
            /\ runStatus' = ShutdownInProgress
            /\ UNCHANGED <<requests, outstanding>>
       ELSE /\ requests' = getRequests(Checker, rsConfig, myIndex)
            /\ outstanding' = Targets(requests')
            /\ IF hasReceivedSufficientResponses(Checker, rsConfig)
               THEN runnerState' = "done" /\ runStatus' = StatusOK
               ELSE runnerState' = "running" /\ runStatus' = NoStatus
    /\ UNCHANGED <<rsConfig, myIndex, checkerVars, shutdown, historyVars>>

\* Variant: the callback does not look at whether the terminal event fired.
Deliver_afterTerminalEvent(target, r) ==
    /\ runnerState \in {"running", "done"}
    /\ isOK(runStatus) \/ runnerState = "running"
    /\ target \in outstanding
    /\ LET c == processResponse(Checker, rsConfig, target, r) IN
       /\ SetChecker(c)
       /\ suffReturned' = (suffReturned \/ hasReceivedSufficientResponses(c, rsConfig))
       /\ IF hasReceivedSufficientResponses(c, rsConfig)
          THEN runnerState' = "done" /\ runStatus' = StatusOK
          ELSE UNCHANGED <<runnerState, runStatus>>
    /\ outstanding' = outstanding \ {target}
    /\ Observe(r)
    /\ UNCHANGED <<rsConfig, myIndex, requests, shutdown, lateVeto, numLate>>

\* The executor completes the request to target with response r while the
\* runner is waiting: the callback calls processResponse and rechecks
\* sufficiency, firing the terminal event the first time it holds.
Deliver(target, r) ==
    /\ runnerState = "running"
    /\ target \in outstanding
    /\ LET c == processResponse(Checker, rsConfig, target, r) IN
       /\ SetChecker(c)
       /\ suffReturned' = (suffReturned \/ hasReceivedSufficientResponses(c, rsConfig))
       /\ IF hasReceivedSufficientResponses(c, rsConfig)
          THEN runnerState' = "done" /\ runStatus' = StatusOK
          ELSE UNCHANGED <<runnerState, runStatus>>
    /\ outstanding' = outstanding \ {target}
    /\ Observe(r)
    /\ UNCHANGED <<rsConfig, myIndex, requests, shutdown, lateVeto, numLate>>

\* Whole runs of the runner with no shutdown: the executor completes the
\* requests to the hosts of remaining with the responses of assign, in any
\* order; each completion goes to processResponse until the algorithm has
\* received sufficient responses, the rest is discarded.  The set of the
\* statuses getFinalStatus can report at the end, over all orders.
RECURSIVE finalStatuses(_, _, _, _)
finalStatuses(c, cfg, remaining, assign) ==
    IF remaining = {} \/ hasReceivedSufficientResponses(c, cfg)
    THEN {getFinalStatus(c)}
    ELSE UNION { finalStatuses(processResponse(c, cfg, t, assign[t]),
                               cfg, remaining \ {t}, assign) : t \in remaining }

\* A completion that arrives after the terminal event fired (sufficiency
\* reached, or the executor shut down) is discarded by the runner.
DropLate(target, veto) ==
    /\ runnerState = "done"
    /\ target \in outstanding
    /\ outstanding' = outstanding \ {target}
    /\ lateVeto' = (lateVeto \/ veto)
    /\ UNCHANGED <<rsConfig, myIndex, checkerVars, runnerState, runStatus,
                   requests, shutdown, numAccepted, anyFailing, anyVeto,
                   suffReturned, numLate>>

\* ReplicationExecutor::shutdown before the check's terminal event: a
\* running check gets its terminal event with a cancelled status.  (A
\* shutdown after the terminal event does not touch the check.)
ShutdownExecutor ==
    /\ ~shutdown
    /\ runnerState # "done"
    /\ shutdown' = TRUE
    /\ IF runnerState = "running"
       THEN runnerState' = "done" /\ runStatus' = RunCanceled
       ELSE UNCHANGED <<runnerState, runStatus>>
    /\ UNCHANGED <<rsConfig, myIndex, checkerVars, requests, outstanding,
                   historyVars>>

Next ==
    \/ Start
    \/ \E target \in outstanding : \E r \in Responses(rsConfig) : Deliver(target, r)
    \/ \E target \in outstanding :
          \E veto \in {Vetoing(r, rsConfig) : r \in Responses(rsConfig)} :
              DropLate(target, veto)
    \/ ShutdownExecutor

Spec == Init /\ [][Next]_vars

\* A scatter-gather procedure that keeps routing completions into the
\* algorithm after sufficiency was reached: the late response racing with
\* the terminal event.
DeliverLate(target, r) ==
    /\ runnerState = "done"
    /\ isOK(runStatus)
    /\ target \in outstanding
    /\ SetChecker(processResponse(Checker, rsConfig, target, r))
    /\ suffReturned' =
         (suffReturned \/ hasReceivedSufficientResponses(
                              processResponse(Checker, rsConfig, target, r), rsConfig))
    /\ outstanding' = outstanding \ {target}
    /\ Observe(r)
    /\ numLate' = numLate + 1
    /\ UNCHANGED <<rsConfig, myIndex, runnerState, runStatus, requests,
                   shutdown, lateVeto>>

NextLate ==
    \/ Next
    \/ \E target \in outstanding : \E r \in Responses(rsConfig) : DeliverLate(target, r)

SpecLate == Init /\ [][NextLate]_vars

----------------------------------------------------------------------------
(* Properties.                                                             *)

Incompatible == "NewReplicaSetConfigurationIncompatible"

SufficientNow == hasReceivedSufficientResponses(Checker, rsConfig)

\* The check ran to its terminal event without being cancelled.
Completed == runnerState = "done" /\ isOK(runStatus)

NoDuplicates(seq) ==
    \A a, b \in DOMAIN seq : a # b => seq[a] # seq[b]

\* C1, as stated: whenever a check has completed and some response of it
\* carried mismatch=true, or a non-empty set with v >= the candidate
\* version, whether that response reached processResponse or arrived after
\* the terminal event, the final status is ConfigurationIncompatible.
C1_AnyVetoingResponseDecides ==
    (Completed /\ (anyVeto \/ lateVeto)) => finalStatus.code = Incompatible

\* C1, amended: once a response carrying mismatch=true, or a non-empty set
\* with v >= the candidate version, has been processed by the checker, the
\* final status is ConfigurationIncompatible, whatever was processed before
\* it and whatever is processed after it.
C1_ProcessedVetoDecides ==
    anyVeto => (finalStatus.code = Incompatible /\ Completed)

\* C1 witness: a veto processed after an accepted response and a failure.
C1_Witness ==
    /\ anyVeto
    /\ numAccepted >= 1
    /\ anyFailing
    /\ finalStatus.code = Incompatible

\* C2: at version 1 the final status is OK only if every member other than
\* self returned a response that is no transport failure, not ok=false and no
\* veto, and numElectable >= 1 and |voters| >= majorityVoteCount.
C2_InitiateOKOnlyIfAllAccepted ==
    (getConfigVersion(rsConfig) = 1 /\ isOK(finalStatus)) =>
        /\ numAccepted = getNumMembers(rsConfig) - 1
        /\ ~anyFailing
        /\ ~anyVeto
        /\ numElectable >= 1
        /\ Len(voters) >= getMajorityVoteCount(rsConfig)

\* C2 witness: an initiate over three members that ended OK.
C2_Witness ==
    /\ getConfigVersion(rsConfig) = 1
    /\ getNumMembers(rsConfig) = 3
    /\ isOK(finalStatus)
    /\ Completed

\* C3: at a version above 1, as soon as numElectable >= 1 and |voters| >=
\* majorityVoteCount hold with no veto set, the check is complete (the
\* predicate holds and the runner is not waiting any more) and the final
\* status is OK, whatever down holds and whatever is still outstanding.
C3_ReconfigQuorumIsOK ==
    ( /\ getConfigVersion(rsConfig) > 1
      /\ numElectable >= 1
      /\ Len(voters) >= getMajorityVoteCount(rsConfig)
      /\ isOK(vetoStatus) ) =>
        /\ SufficientNow
        /\ isOK(finalStatus)
        /\ runnerState # "running"

\* C3 witness: a reconfig that a response completed with status OK while
\* another request was still outstanding.
C3_Witness ==
    /\ getConfigVersion(rsConfig) > 1
    /\ Completed
    /\ isOK(finalStatus)
    /\ numAccepted = 1
    /\ outstanding # {}

\* C4: at version 1 with no veto, a complete check in which some member
\* other than self answered with a transport failure, a timeout or ok=false
\* has final status NodeNotFound.
C4_InitiateFailureIsNodeNotFound ==
    ( /\ getConfigVersion(rsConfig) = 1
      /\ isOK(vetoStatus)
      /\ anyFailing
      /\ SufficientNow ) =>
        finalStatus.code = "NodeNotFound"

\* C4 witness: such a check in which an electable member and a majority of
\* the voters answered positively.
C4_Witness ==
    /\ getConfigVersion(rsConfig) = 1
    /\ isOK(vetoStatus)
    /\ anyFailing
    /\ Completed
    /\ numAccepted >= 1
    /\ numElectable >= 1
    /\ Len(voters) >= getMajorityVoteCount(rsConfig)
    /\ finalStatus.code = "NodeNotFound"

\* C5: a processResponse call made after hasReceivedSufficientResponses
\* has returned true leaves finalStatus as it was.  Stated on the code of
\* the status, the least the claim asks for: the late call does not turn
\* one verdict into another.
C5_LateResponseAbsorbed ==
    [][numLate' # numLate => finalStatus'.code = finalStatus.code]_vars

\* C6: once hasReceivedSufficientResponses returns true it returns true in
\* every later state, whatever further responses are processed.
C6_SufficiencyMonotone ==
    [][SufficientNow => SufficientNow']_vars

\* C6 witness: the predicate holds after responses were processed late.
C6_Witness ==
    /\ SufficientNow
    /\ numLate >= 1
    /\ suffReturned

\* C7: a verdict is written into finalStatus exactly once, by the call that
\* finds the sufficiency predicate true: no verdict is written while the
\* predicate is false, and exactly one has been written once it holds.
C7_FinalStatusWrittenOnce ==
    numFinalWrites = (IF SufficientNow THEN 1 ELSE 0)

\* C7 witness: the verdict was written by processResponse, after two
\* responses, and the check is complete.
C7_Witness ==
    /\ numFinalWrites = 1
    /\ numResponses = 3
    /\ Completed

\* C8: numResponses never exceeds the number of members.
C8_NumResponsesBounded ==
    numResponses <= getNumMembers(rsConfig)

\* C8 witness: every member of a three-member configuration has responded.
C8_Witness ==
    /\ getNumMembers(rsConfig) = 3
    /\ numResponses = 3

\* C9: no endpoint is in both voters and down, and none occurs twice in
\* the concatenation of voters and down.
C9_VotersDownDisjoint ==
    /\ NoDuplicates(voters \o down)
    /\ \A a \in DOMAIN voters : \A b \in DOMAIN down : voters[a] # down[b]

\* C9 witness: both lists are populated.
C9_Witness ==
    /\ Len(voters) >= 2
    /\ Len(down) >= 1

\* C10: a single-member configuration (self at index 0) issues no request:
\* getRequests returns the empty list, nothing is scheduled or processed,
\* the runner fires the terminal event on start, and the verdict is OK.
C10_SingleMemberOK ==
    getNumMembers(rsConfig) = 1 =>
        /\ myIndex = 0
        /\ isOK(getFinalStatus(Checker))
        /\ getRequests(Checker, rsConfig, myIndex) = <<>>
        /\ requests = <<>>
        /\ outstanding = {}
        /\ numResponses = 1
        /\ runnerState # "running"
        /\ (runnerState = "done" /\ ~shutdown) =>
               /\ isOK(runStatus)
               /\ isOK(checkQuorumGeneral(runStatus, Checker))

\* C10 witness: the runner finished a single-member check.
C10_Witness ==
    /\ getNumMembers(rsConfig) = 1
    /\ Completed
    /\ isOK(checkQuorumGeneral(runStatus, Checker))

\* No response has been routed into processResponse yet.
NoneProcessed == numAccepted = 0 /\ ~anyFailing /\ ~anyVeto

\* The status checkQuorumForInitiate / checkQuorumForReconfig return once
\* the terminal event has fired.
EntryResult == checkQuorumGeneral(runStatus, Checker)

\* C11: when the executor is shut down after the requests were scheduled
\* and before the sufficiency predicate holds, the entry point returns the
\* runner's cancelled status itself, not the checker's finalStatus.
C11_ShutdownReturnsRunnerStatus ==
    (shutdown /\ requests # <<>>) =>
        /\ runnerState = "done"
        /\ ~SufficientNow
        /\ ~isOK(runStatus)
        /\ runStatus.code = "CallbackCanceled"
        /\ EntryResult = runStatus
        /\ EntryResult # getFinalStatus(Checker)

\* C11 witness: a check cancelled after one response had been processed.
C11_Witness ==
    /\ shutdown
    /\ requests # <<>>
    /\ runnerState = "done"
    /\ ~NoneProcessed
    /\ EntryResult = RunCanceled

\* C12: when the executor shuts down while a request is outstanding the
\* terminal event has fired; from then on no response is tabulated and the
\* checker's fields keep the values they had at shutdown, which are the
\* self pre-credit alone when no response had been processed.
C12_ResponsesAfterShutdownDropped ==
    /\ []((shutdown /\ requests # <<>>) => runnerState = "done")
    /\ []((shutdown /\ NoneProcessed) =>
            /\ numResponses = 1
            /\ down = <<>>
            /\ voters = (IF getMemberAt(rsConfig, myIndex).isVoter
                         THEN <<getMemberAt(rsConfig, myIndex).host>> ELSE <<>>)
            /\ numElectable = (IF getMemberAt(rsConfig, myIndex).isElectable
                               THEN 1 ELSE 0))
    /\ [][shutdown => checkerVars' = checkerVars]_vars

\* C12 witness: the response to the only request arrived after the
\* shutdown and the counters still show the self pre-credit.
C12_Witness ==
    /\ shutdown
    /\ requests # <<>>
    /\ outstanding = {}
    /\ NoneProcessed
    /\ numResponses = 1

\* C13: the runner never calls processResponse in a state where
\* hasReceivedSufficientResponses has already returned true.
C13_NoProcessAfterSufficient ==
    [][numResponses' # numResponses => ~suffReturned]_vars

\* C13 witness: the runner stopped at sufficiency with a request still
\* outstanding.
C13_Witness ==
    /\ Completed
    /\ suffReturned
    /\ ~NoneProcessed
    /\ outstanding # {}

\* The number of voting members of the candidate configuration, and the
\* strict majority of them.
NumVotingMembers ==
    Cardinality({i \in 0..(getNumMembers(rsConfig) - 1) :
                    getMemberAt(rsConfig, i).isVoter})

VoterMajority == (NumVotingMembers \div 2) + 1

\* C14: for a completed check with no veto, at least one electable
\* responder and (at version 1) an empty down list, finalStatus is OK iff
\* the voters list, self included when self votes, holds at least
\* floor(V/2)+1 hosts; below that it is NodeNotFound.
C14_MajorityBoundary ==
    (/\ SufficientNow
     /\ isOK(vetoStatus)
     /\ numElectable >= 1
     /\ (getConfigVersion(rsConfig) = 1 => down = <<>>)) =>
        /\ isOK(finalStatus) <=> Len(voters) >= VoterMajority
        /\ Len(voters) < VoterMajority => finalStatus.code = "NodeNotFound"
        /\ getMemberAt(rsConfig, myIndex).isVoter =>
               Len(voters) >= 1 /\ voters[1] = getMemberAt(rsConfig, myIndex).host

\* C14 witness: a completed check that is exactly one voter short.
C14_Witness ==
    /\ Completed
    /\ isOK(vetoStatus)
    /\ numElectable >= 1
    /\ Len(voters) >= 1
    /\ Len(voters) = VoterMajority - 1
    /\ finalStatus.code = "NodeNotFound"

\* C15: a completed check with numElectable = 0 is never OK, whatever the
\* number of voters; and a reconfig check with numElectable = 0, no veto
\* and a member still to respond is not sufficient.
C15_ElectabilityBoundary ==
    numElectable = 0 =>
        /\ ~isOK(finalStatus)
        /\ (isOK(vetoStatus) /\ numResponses < getNumMembers(rsConfig)) =>
               ~SufficientNow

\* C15 witness: a completed reconfig check with a majority of voters and no
\* electable responder; it had to wait for every member.
C15_Witness ==
    /\ Completed
    /\ getConfigVersion(rsConfig) > 1
    /\ isOK(vetoStatus)
    /\ numElectable = 0
    /\ Len(voters) >= VoterMajority
    /\ numResponses = getNumMembers(rsConfig)
    /\ finalStatus.code = "NodeNotFound"

\* Some outstanding request is completed by the executor.
DeliverSome ==
    \E target \in outstanding : \E r \in Responses(rsConfig) : Deliver(target, r)

\* The runner is started and the executor keeps completing scheduled
\* requests while it is not shut down: weak fairness on the runner's start
\* and on the delivery of outstanding responses.
SpecFair ==
    /\ Spec
    /\ WF_vars(Start)
    /\ WF_vars(DeliverSome)

\* C16: every check eventually fires its terminal event, and when the
\* executor is never shut down the sufficiency predicate eventually holds.
C16_Termination ==
    /\ <>(runnerState = "done")
    /\ ([]~shutdown) => <>SufficientNow

\* C16 witness: an initiate check that ended, without a shutdown, when the
\* last member had responded.
C16_Witness ==
    /\ runnerState = "done"
    /\ ~shutdown
    /\ SufficientNow
    /\ getConfigVersion(rsConfig) = 1
    /\ getNumMembers(rsConfig) > 1
    /\ outstanding = {}

\* C17: hasReceivedSufficientResponses is true exactly when a veto is set,
\* or every member has responded, or the version is above 1 with an
\* electable responder and a majority of voters.
C17_SufficiencyCharacterised ==
    SufficientNow <=>
        \/ ~isOK(vetoStatus)
        \/ numResponses = getNumMembers(rsConfig)
        \/ /\ getConfigVersion(rsConfig) > 1
           /\ numElectable >= 1
           /\ Len(voters) >= VoterMajority

\* C17 witness: at version 1 the check is still waiting although a
\* majority of voters and an electable member have responded.
C17_Witness ==
    /\ getConfigVersion(rsConfig) = 1
    /\ runnerState = "running"
    /\ ~SufficientNow
    /\ numAccepted >= 1
    /\ numElectable >= 1
    /\ Len(voters) >= VoterMajority

\* C18: a computed finalStatus is the outcome of the first rule that
\* matches, in the order veto, unreachable node at version 1, no electable
\* responder, too few voters, OK.
C18_FinalizationPriority ==
    numFinalWrites >= 1 =>
        IF ~isOK(vetoStatus)
        THEN finalStatus = vetoStatus
        ELSE IF getConfigVersion(rsConfig) = 1 /\ down # <<>>
        THEN /\ finalStatus.code = "NodeNotFound"
             /\ finalStatus.reason =
                  "Could not contact the following nodes during replica set initiation"
             /\ finalStatus.hosts = down
        ELSE IF numElectable = 0
        THEN /\ finalStatus.code = "NodeNotFound"
             /\ finalStatus.reason =
                  "Quorum check failed because no electable nodes responded"
        ELSE IF Len(voters) < VoterMajority
        THEN /\ finalStatus.code = "NodeNotFound"
             /\ finalStatus.reason \in
                  {"Quorum check failed because not enough voting nodes responded; none responded",
                   "Quorum check failed because not enough voting nodes responded; only the following"}
             /\ finalStatus.hosts = voters
        ELSE finalStatus = StatusOK

\* C18 witness: at version 1 a veto wins over a down node and over the
\* lack of an electable responder.
C18_Witness ==
    /\ Completed
    /\ getConfigVersion(rsConfig) = 1
    /\ down # <<>>
    /\ numElectable = 0
    /\ ~isOK(vetoStatus)
    /\ finalStatus = vetoStatus

\* The response sets the veto: a set-name mismatch, or a non-empty set with
\* an installed version at or above the candidate's.
VetoCondition(r) ==
    r.mismatch \/ (r.set # "" /\ r.v >= getConfigVersion(rsConfig))

\* C19: tabulating any response from any outstanding target: a transport
\* failure appends the target to down and leaves the veto alone; a
\* structured response meeting a veto condition sets the veto and is not
\* put in down, ok=false included; a structured response is put in down
\* exactly when ok=false and no veto condition holds; numElectable and
\* voters change only for a response that passed all four checks.
C19_TabulationOrder ==
    runnerState = "running" =>
        \A target \in outstanding : \A r \in Responses(rsConfig) :
            LET c == tabulateHeartbeatResponse(Checker, rsConfig, target, r) IN
            /\ ~r.isOK =>
                   c.down = Append(down, target) /\ c.vetoStatus = vetoStatus
            /\ (r.isOK /\ VetoCondition(r)) =>
                   /\ c.vetoStatus.code = "NewReplicaSetConfigurationIncompatible"
                   /\ c.vetoStatus.hosts = <<target>>
                   /\ c.down = down
            /\ r.isOK =>
                   ((c.down = Append(down, target)) <=> (~r.ok /\ ~VetoCondition(r)))
            /\ r.isOK => (c.down = down \/ c.down = Append(down, target))
            /\ (c.numElectable # numElectable \/ c.voters # voters) =>
                   (r.isOK /\ ~VetoCondition(r) /\ r.ok)
            /\ (r.isOK /\ ~VetoCondition(r)) => c.vetoStatus = vetoStatus

\* C19 witness: the one response processed so far had ok=false and a veto
\* condition; the veto is set and the down list is empty.
C19_Witness ==
    /\ numResponses = 2
    /\ anyVeto
    /\ anyFailing
    /\ ~isOK(vetoStatus)
    /\ down = <<>>

\* reqs holds one request per non-self member: none to self, distinct
\* targets, the candidate version, checkEmpty iff the version is 1.
OnePerNonSelfMember(reqs) ==
    /\ Len(reqs) = getNumMembers(rsConfig) - 1
    /\ NoDuplicates([k \in 1..Len(reqs) |-> reqs[k].target])
    /\ \A k \in 1..Len(reqs) :
          /\ reqs[k].target # getMemberAt(rsConfig, myIndex).host
          /\ \E i \in 0..(getNumMembers(rsConfig) - 1) :
                i # myIndex /\ getMemberAt(rsConfig, i).host = reqs[k].target
          /\ reqs[k].configVersion = getConfigVersion(rsConfig)
          /\ reqs[k].checkEmpty = (getConfigVersion(rsConfig) = 1)

\* C20: getRequests returns one request per non-self member while the
\* check is not complete, and the empty list once it is; the requests the
\* runner scheduled are of that form.
C20_RequestsPerNonSelfMember ==
    /\ ~SufficientNow => OnePerNonSelfMember(getRequests(Checker, rsConfig, myIndex))
    /\ SufficientNow => getRequests(Checker, rsConfig, myIndex) = <<>>
    /\ runnerState = "running" => OnePerNonSelfMember(requests)
    /\ (runnerState # "created" /\ requests = <<>>) => (SufficientNow \/ shutdown)

\* C20 witness: self is the middle member of three and two requests were
\* scheduled.
C20_Witness ==
    /\ runnerState = "running"
    /\ myIndex = 1
    /\ Len(requests) = 2
    /\ requests[1].target # requests[2].target

\* The hosts whose responses were processed in the step.
JustProcessed == outstanding \ outstanding'

\* C21: down and voters are only ever appended to, by the target of the
\* response being processed, so down lists the failing hosts and voters
\* lists self (when self votes) and then the accepting voters, each in
\* processing order; the NodeNotFound statuses carry these lists as they
\* were recorded.
C21_ListsInProcessingOrder ==
    /\ [](IF getMemberAt(rsConfig, myIndex).isVoter
          THEN Len(voters) >= 1 /\ voters[1] = getMemberAt(rsConfig, myIndex).host
          ELSE \A k \in 1..Len(voters) :
                   voters[k] # getMemberAt(rsConfig, myIndex).host)
    /\ []((finalStatus.code = "NodeNotFound" /\ finalStatus.hosts # <<>>) =>
              (finalStatus.hosts = down \/ finalStatus.hosts = voters))
    /\ [][/\ \/ down' = down
             \/ \E t \in JustProcessed : down' = Append(down, t)
          /\ \/ voters' = voters
             \/ \E t \in JustProcessed :
                   /\ voters' = Append(voters, t)
                   /\ getMemberAt(rsConfig, findMember(rsConfig, t)).isVoter
          /\ down' = down \/ voters' = voters]_vars

\* C21 witness: the member with the higher index failed first; the status
\* names the hosts in that order.
C21_Witness ==
    /\ Completed
    /\ Len(down) = 2
    /\ down[1] > down[2]
    /\ finalStatus.code = "NodeNotFound"
    /\ finalStatus.hosts = down

\* C22: finalStatus is the "Quorum check canceled" placeholder exactly
\* while the sufficiency predicate does not hold; once it holds finalStatus
\* is a computed verdict: the veto, NodeNotFound or OK.
C22_SentinelIffNotSufficient ==
    /\ (finalStatus = QuorumCheckCanceled) <=> ~SufficientNow
    /\ SufficientNow =>
          /\ finalStatus.code \in
                {"NewReplicaSetConfigurationIncompatible", "NodeNotFound", "OK"}
          /\ finalStatus.code # "CallbackCanceled"
          /\ getFinalStatus(Checker) = quorumCheckResult(Checker, rsConfig)

\* C22 witness: the processResponse call for the last response made the
\* predicate true and replaced the placeholder by a verdict.
C22_Witness ==
    /\ Completed
    /\ ~NoneProcessed
    /\ numResponses = getNumMembers(rsConfig)
    /\ numFinalWrites = 1
    /\ finalStatus # QuorumCheckCanceled

\* C23: at version 1, once the requests are scheduled and with no
\* shutdown, for every assignment of a response to each non-self member
\* the run ends with a computed status whose code (OK, NodeNotFound or
\* NewReplicaSetConfigurationIncompatible) is the same for every order of
\* delivery.
C23_OrderIndependentAtInitiate ==
    (/\ runnerState = "running"
     /\ NoneProcessed
     /\ outstanding = Targets(requests)
     /\ getConfigVersion(rsConfig) = 1) =>
        \A assign \in [outstanding -> Responses(rsConfig)] :
            LET kinds == {status.code :
                            status \in finalStatuses(Checker, rsConfig,
                                                     outstanding, assign)}
            IN  /\ Cardinality(kinds) = 1
                /\ kinds \subseteq {"OK", "NodeNotFound",
                                    "NewReplicaSetConfigurationIncompatible"}

\* C23 witness: an initiate check in which the member with the higher
\* index failed before the other one vetoed; delivered the other way round
\* the veto would have ended the check at once.
C23_Witness ==
    /\ Completed
    /\ getConfigVersion(rsConfig) = 1
    /\ ~shutdown
    /\ Len(down) = 1
    /\ ~isOK(vetoStatus)
    /\ down[1] > vetoStatus.hosts[1]
    /\ finalStatus.code = "NewReplicaSetConfigurationIncompatible"

====
